---- MODULE Spec2Model ----
(***************************************************************************)
(* Model of the "paste to nearest assets" plugin (src/main.ts).            *)
(*                                                                         *)
(* Strings are sequences of one-character strings, so that startsWith,     *)
(* toLowerCase, replace, trim, join and normalizePath are computed on the  *)
(* characters.  The vault is the host's path -> entry map: the set of      *)
(* folder paths and the set of file paths.                                 *)
(***************************************************************************)
EXTENDS Integers, Sequences, FiniteSets, TLC

----------------------------------------------------------------------------
(* Characters and string helpers (JavaScript String methods)               *)

S_Slash == "/"
S_Space == " "
S_Tab   == "\t"
S_Dot   == "."
S_BSl   == "\\"

\* src/main.ts:15
TOP_FOLDER_SCOPE == <<"U","n","i"," ","N","o","t","e","s">>
\* src/main.ts:16
ASSETS_DIR_NAME == <<"a","s","s","e","t","s">>

\* The absent value: null / undefined.
Null == <<"<null>">>

\* The root folder's path.
RootPath == <<"/">>

\* String.prototype.startsWith
StartsWith(s, p) == Len(s) >= Len(p) /\ SubSeq(s, 1, Len(p)) = p

\* String.prototype.endsWith
EndsWith(s, p) == Len(s) >= Len(p) /\ SubSeq(s, Len(s) - Len(p) + 1, Len(s)) = p

LowerChar(c) == CASE c = "A" -> "a"
                  [] c = "S" -> "s"
                  [] c = "U" -> "u"
                  [] c = "N" -> "n"
                  [] OTHER   -> c

\* String.prototype.toLowerCase
ToLowerCase(s) == [i \in 1..Len(s) |-> LowerChar(s[i])]

\* The characters the regexp class \s and String.prototype.trim treat as white space.
IsWhite(c) == c \in {S_Space, S_Tab}

RECURSIVE TrimStart(_)
TrimStart(s) == IF s # <<>> /\ IsWhite(Head(s)) THEN TrimStart(Tail(s)) ELSE s

RECURSIVE TrimEnd(_)
TrimEnd(s) == IF s # <<>> /\ IsWhite(s[Len(s)]) THEN TrimEnd(SubSeq(s, 1, Len(s) - 1)) ELSE s

\* String.prototype.trim
Trim(s) == TrimEnd(TrimStart(s))

\* Array.prototype.filter(Boolean) on strings, then join("/")
RECURSIVE JoinNonEmpty(_)
JoinNonEmpty(parts) ==
    IF parts = <<>> THEN <<>>
    ELSE LET rest == JoinNonEmpty(Tail(parts)) IN
         IF Head(parts) = <<>> THEN rest
         ELSE IF rest = <<>> THEN Head(parts)
         ELSE Head(parts) \o <<S_Slash>> \o rest

\* Number.prototype.toString for a non-negative integer
Digit(d) == CASE d = 0 -> "0" [] d = 1 -> "1" [] d = 2 -> "2" [] d = 3 -> "3"
              [] d = 4 -> "4" [] d = 5 -> "5" [] d = 6 -> "6" [] d = 7 -> "7"
              [] d = 8 -> "8" [] d = 9 -> "9"

RECURSIVE NumToString(_)
NumToString(n) == IF n < 10 THEN <<Digit(n)>> ELSE NumToString(n \div 10) \o <<Digit(n % 10)>>

\* String.prototype.padStart(2, "0") of a number's digits
Pad2(n) == LET s == NumToString(n) IN IF Len(s) < 2 THEN <<"0">> \o s ELSE s

----------------------------------------------------------------------------
(* Host path functions                                                      *)

\* obsidian normalizePath: runs of / and \ become one /, leading and trailing
\* slashes are dropped, the empty path is the root.
RECURSIVE CollapseSlashes(_)
CollapseSlashes(s) ==
    IF s = <<>> THEN <<>>
    ELSE LET c == IF Head(s) = S_BSl THEN S_Slash ELSE Head(s)
             rest == CollapseSlashes(Tail(s))
         IN IF c = S_Slash /\ rest # <<>> /\ Head(rest) = S_Slash THEN rest
            ELSE <<c>> \o rest

RECURSIVE StripSlashStart(_)
StripSlashStart(s) == IF s # <<>> /\ Head(s) = S_Slash THEN StripSlashStart(Tail(s)) ELSE s

RECURSIVE StripSlashEnd(_)
StripSlashEnd(s) ==
    IF s # <<>> /\ s[Len(s)] = S_Slash THEN StripSlashEnd(SubSeq(s, 1, Len(s) - 1)) ELSE s

normalizePath(p) ==
    LET q == StripSlashEnd(StripSlashStart(CollapseSlashes(p)))
    IN IF q = <<>> THEN RootPath ELSE q

\* The index of the last "/" of a path, 0 when there is none.
RECURSIVE LastSlash(_)
LastSlash(p) == IF p = <<>> THEN 0
                ELSE IF p[Len(p)] = S_Slash THEN Len(p)
                ELSE LastSlash(SubSeq(p, 1, Len(p) - 1))

\* TAbstractFile.name: the last segment of the path
NameOf(p) == IF p = RootPath THEN <<>> ELSE SubSeq(p, LastSlash(p) + 1, Len(p))

\* TAbstractFile.parent: the containing folder, null for the root
ParentOf(p) == IF p = RootPath THEN Null
               ELSE IF LastSlash(p) = 0 THEN RootPath
               ELSE SubSeq(p, 1, LastSlash(p) - 1)

\* TFile.basename: the name without its extension
RECURSIVE LastDot(_)
LastDot(s) == IF s = <<>> THEN 0
              ELSE IF s[Len(s)] = S_Dot THEN Len(s)
              ELSE LastDot(SubSeq(s, 1, Len(s) - 1))

BasenameOf(p) == LET n == NameOf(p) IN
                 IF LastDot(n) <= 1 THEN n ELSE SubSeq(n, 1, LastDot(n) - 1)

----------------------------------------------------------------------------
(* The plugin's functions (class PasteToNearestAssets)                      *)

\* A faulty isInScope: the "/" is not appended to the scope
isInScope_NoSlash(path) == StartsWith(path, TOP_FOLDER_SCOPE)

\* isInScope: the scope prefix is TOP_FOLDER_SCOPE with a "/" appended unless
\* it ends with one; an empty scope admits every file.
isInScope(path) ==
    IF TOP_FOLDER_SCOPE = <<>> THEN TRUE
    ELSE LET scopePrefix == IF EndsWith(TOP_FOLDER_SCOPE, <<S_Slash>>)
                            THEN TOP_FOLDER_SCOPE
                            ELSE TOP_FOLDER_SCOPE \o <<S_Slash>>
         IN StartsWith(path, scopePrefix)

\* A faulty character class: "/" is missing from it
IllegalChars_NoSlash == {S_BSl, ":", "*", "?", "\"", "<", ">", "|"}

\* The characters of the class [\\/:*?"<>|]
IllegalChars == {S_BSl, S_Slash, ":", "*", "?", "\"", "<", ">", "|"}

\* s.replace(/[\\/:*?"<>|]/g, " ")
ReplaceIllegal(s) == [i \in 1..Len(s) |-> IF s[i] \in IllegalChars THEN S_Space ELSE s[i]]

\* s.replace(/\s+/g, " ")
RECURSIVE CollapseWhite(_)
CollapseWhite(s) ==
    IF s = <<>> THEN <<>>
    ELSE IF IsWhite(Head(s))
         THEN <<S_Space>> \o CollapseWhite(TrimStart(Tail(s)))
         ELSE <<Head(s)>> \o CollapseWhite(Tail(s))

\* /^[.]+$/.test(s)
DotOnly(s) == s # <<>> /\ \A i \in 1..Len(s) : s[i] = S_Dot

sanitizeBase(s) ==
    LET cleaned == Trim(CollapseWhite(ReplaceIllegal(s)))
    IN IF cleaned = <<>> \/ DotOnly(cleaned) THEN <<>> ELSE cleaned

makeNamePrefix(basename) ==
    LET cleaned == sanitizeBase(basename)
    IN IF cleaned # <<>> THEN cleaned \o <<"-">> ELSE <<>>

\* defaultPasteBasename, of the clock reading d (getMonth() counts from 0)
defaultPasteBasename(d) ==
    <<"P","a","s","t","e","d"," ","i","m","a","g","e"," ">>
        \o NumToString(d.year) \o Pad2(d.month + 1) \o Pad2(d.date)
        \o Pad2(d.hours) \o Pad2(d.minutes) \o Pad2(d.seconds)

M_image == <<"i","m","a","g","e","/">>
M_png   == M_image \o <<"p","n","g">>
M_jpeg  == M_image \o <<"j","p","e","g">>
M_jpg   == M_image \o <<"j","p","g">>
M_webp  == M_image \o <<"w","e","b","p">>
M_gif   == M_image \o <<"g","i","f">>
M_svg   == M_image \o <<"s","v","g","+","x","m","l">>
M_heic  == M_image \o <<"h","e","i","c">>
M_heif  == M_image \o <<"h","e","i","f">>
M_text  == <<"t","e","x","t","/","p","l","a","i","n">>
M_imagesTypo == <<"i","m","a","g","e","s","/","p","n","g">>

getExtFromMime(mime) ==
    IF mime = Null \/ mime = <<>> THEN Null
    ELSE CASE mime = M_png  -> <<"p","n","g">>
           [] mime = M_jpeg -> <<"j","p","g">>
           [] mime = M_jpg  -> <<"j","p","g">>
           [] mime = M_webp -> <<"w","e","b","p">>
           [] mime = M_gif  -> <<"g","i","f">>
           [] mime = M_svg  -> <<"s","v","g">>
           [] mime = M_heic -> <<"h","e","i","c">>
           [] mime = M_heif -> <<"h","e","i","f">>
           [] OTHER         -> Null

\* Array.from(fileList).find((f) => f.type.startsWith("image/")): the index of
\* the first image entry, 0 when there is none.
RECURSIVE FindImageFrom(_, _)
FindImageFrom(fileList, i) ==
    IF i > Len(fileList) THEN 0
    ELSE IF StartsWith(fileList[i], M_image) THEN i
    ELSE FindImageFrom(fileList, i + 1)

FindImage(fileList) == FindImageFrom(fileList, 1)

\* cur.children of a folder: the vault entries whose parent it is
Children(cur, entries) == {c \in entries : c # RootPath /\ ParentOf(c) = cur}

\* A faulty walk: the child's name is compared without toLowerCase()
RECURSIVE findNearestAssetsFolder_CaseSensitive(_, _)
findNearestAssetsFolder_CaseSensitive(cur, dirs) ==
    IF cur = Null THEN {Null}
    ELSE LET found == {c \in Children(cur, dirs) : NameOf(c) = ASSETS_DIR_NAME}
         IN IF found # {} THEN found
            ELSE findNearestAssetsFolder_CaseSensitive(ParentOf(cur), dirs)

\* findNearestAssetsFolder: the values the walk can return.  children.find
\* returns the first match in the host's child order, which the plugin does
\* not control, so every matching child of the nearest folder is possible;
\* {Null} when the walk passes the root.
RECURSIVE findNearestAssetsFolder(_, _)
findNearestAssetsFolder(cur, dirs) ==
    IF cur = Null THEN {Null}
    ELSE LET found == {c \in Children(cur, dirs) :
                          ToLowerCase(NameOf(c)) = ASSETS_DIR_NAME}
         IN IF found # {} THEN found
            ELSE findNearestAssetsFolder(ParentOf(cur), dirs)

\* A faulty path: the folder's own path is left out of the join
AssetsPathUnder_AtRoot(folderPath) == normalizePath(JoinNonEmpty(<<ASSETS_DIR_NAME>>))

\* ensureAssetsUnder: the path it looks up and creates
AssetsPathUnder(folderPath) ==
    normalizePath(JoinNonEmpty(<<IF folderPath = RootPath THEN <<>> ELSE folderPath,
                                 ASSETS_DIR_NAME>>))

\* exists: getAbstractFileByPath finds an entry, file or folder
exists(path, entries) == path \in entries

\* getUniquePath's make(i)
MakeCandidate(folderPath, base, ext, i) ==
    LET dir == IF folderPath = RootPath THEN <<>> ELSE folderPath
        fname == IF i = 0 THEN base \o <<S_Dot>> \o ext
                 ELSE base \o <<S_Space>> \o NumToString(i) \o <<S_Dot>> \o ext
    IN normalizePath(JoinNonEmpty(<<dir, fname>>))

RECURSIVE UniqueFrom(_, _, _, _, _)
UniqueFrom(folderPath, base, ext, i, entries) ==
    IF exists(MakeCandidate(folderPath, base, ext, i), entries)
    THEN UniqueFrom(folderPath, base, ext, i + 1, entries)
    ELSE MakeCandidate(folderPath, base, ext, i)

\* A faulty scan: the counter starts at 1
getUniquePath_FromOne(folderPath, base, ext, entries) ==
    UniqueFrom(folderPath, base, ext, 1, entries)

getUniquePath(folderPath, base, ext, entries) == UniqueFrom(folderPath, base, ext, 0, entries)

\* text.split("\n"): the number of pieces and the length of the last one
NewlineCount(text) == Cardinality({i \in 1..Len(text) : text[i] = "\n"})

RECURSIVE LastLineLen(_)
LastLineLen(text) == IF text = <<>> \/ text[Len(text)] = "\n" THEN 0
                     ELSE 1 + LastLineLen(SubSeq(text, 1, Len(text) - 1))

Pos(l, c) == [line |-> l, ch |-> c]

computeEndPos(from, text) ==
    IF NewlineCount(text) + 1 = 1
    THEN Pos(from.line, from.ch + Len(text))
    ELSE Pos(from.line + NewlineCount(text), LastLineLen(text))

----------------------------------------------------------------------------
(* class NamePromptModal: the calls of the promise's resolve function, in   *)
(* order.  A promise settles with the first call; later calls do nothing.   *)

\* onClose: resolves null unless the modal has been marked resolved
onClose(resolved) == IF ~resolved THEN <<Null>> ELSE <<>>

\* finish (Save button, Enter key): marks resolved, closes, resolves the value
finish(inputValue, prefix, defaultBase) ==
    LET trimmed == Trim(inputValue)
        value == IF trimmed = <<>> THEN prefix \o defaultBase ELSE trimmed
    IN onClose(TRUE) \o <<value>>

\* A faulty cancel: it resolves the pre-filled name instead of null
cancel_ResolvesDefault(inputValue, prefix, defaultBase) ==
    onClose(TRUE) \o <<prefix \o defaultBase>>

\* cancel (Cancel button, Escape key): marks resolved, closes, resolves null
cancel(inputValue, prefix, defaultBase) == onClose(TRUE) \o <<Null>>

\* the modal closed by the host in any other way: only onClose runs
closeOther(inputValue, prefix, defaultBase) == onClose(FALSE)

\* The value the awaited promise yields
Settled(calls) == calls[1]

----------------------------------------------------------------------------
(* Bounds and input sets                                                   *)

\* The target folder may already hold "a.png", "a 1.png", ... below this index
MaxExisting == 2

\* The handler invocations of a behaviour, in the order of their paste events
Handlers == {1, 2}

Views == {"V1", "V2"}
NoView == "none"
NoFile == [path |-> Null, parent |-> Null]

P_Uni     == TOP_FOLDER_SCOPE
P_Sub     == P_Uni \o <<"/","s","u","b">>
P_Other   == P_Uni \o <<"2">>
N_assets  == ASSETS_DIR_NAME
N_Assets  == <<"A","s","s","e","t","s">>
P_Note1   == P_Sub \o <<"/","n",".","m","d">>
P_Note2   == P_Uni \o <<"/","m",".","m","d">>
P_NoteOut == P_Other \o <<"/","m",".","m","d">>

E_png == <<"p","n","g">>

\* TFile of a path, attached to its folder
FileAt(p) == [path |-> p, parent |-> ParentOf(p)]

\* A TFile whose parent is null (no containing folder object)
Detached(p) == [path |-> p, parent |-> Null]

E_jpg == <<"j","p","g">>

\* Folders present in every initial vault
BaseFolders == {RootPath, P_Uni, P_Sub, P_Other}

P_RootAssets == N_assets
P_UniAssets  == P_Uni \o <<S_Slash>> \o N_assets
P_UniAssetsU == P_Uni \o <<S_Slash>> \o N_Assets
P_SubAssets  == P_Sub \o <<S_Slash>> \o N_assets
P_SubAssetsU == P_Sub \o <<S_Slash>> \o N_Assets

\* Optional entries of the initial vault, as [folders, files], per folder
RootOptions == { [folders |-> {}, files |-> {}],
                 [folders |-> {P_RootAssets}, files |-> {}] }

UniOptions  == { [folders |-> {}, files |-> {}],
                 [folders |-> {P_UniAssets}, files |-> {}],
                 [folders |-> {P_UniAssets, P_UniAssetsU}, files |-> {}],
                 [folders |-> {}, files |-> {P_UniAssets}] }

SubOptions  == { [folders |-> {}, files |-> {}],
                 [folders |-> {P_SubAssetsU}, files |-> {}],
                 [folders |-> {}, files |-> {P_SubAssets}] }

\* Image files "a.jpg", "a 1.jpg", ... earlier pastes may have left
ExistingImages(have) == {MakeCandidate(P_UniAssets, <<"a">>, E_jpg, i) : i \in have}

NoteFiles == {P_Note1, P_Note2, P_NoteOut}

\* What the user may have typed in the dialog's input when it ends
InputValues ==
    { <<>>,
      <<"a">>,
      <<".", ".">>,
      <<":", "a", "\t", "/", "b", ":">> }

\* Clipboard payloads: the MIME types of the file entries, in order
Clipboards ==
    { <<>>,
      <<M_text>>,
      <<M_imagesTypo>>,
      <<M_text, M_jpeg, M_png>> }

\* Clock readings (new Date())
Clock == { [year |-> 2025, month |-> 0, date |-> 5, hours |-> 9, minutes |-> 30, seconds |-> 7] }

ScrollTops == {0, 40}

VARIABLES folders, files, viewFile, editor, hs

vars == <<folders, files, viewFile, editor, hs>>

Entries == folders \cup files

IdleHandler ==
    [ pc |-> "idle", view |-> NoView, evtFiles |-> <<>>, prevented |-> FALSE,
      image |-> Null,
      selectFrom |-> Pos(0, 0), selectTo |-> Pos(0, 0),
      activeFile |-> Null, startFolder |-> Null, assetsFolder |-> Null,
      pending |-> Null, defaultBase |-> Null, prefix |-> Null, ext |-> Null,
      name |-> Null, how |-> "none", safeBase |-> Null, targetPath |-> Null,
      targetView |-> NoView, endPos |-> Pos(0, 0), scrollLeft |-> 0, scrollTop |-> 0,
      link |-> Null,
      \* history of the handler's calls of the host API
      notices |-> 0, dialogs |-> 0, created |-> {}, written |-> {},
      insertedIn |-> NoView, err |-> "none", usedAtWrite |-> FALSE ]

EditorInit ==
    [ v \in Views |->
        IF v = "V1"
        THEN [text |-> <<"x", "y", "z">>, from |-> Pos(0, 1), to |-> Pos(0, 2),
              left |-> 0, top |-> 40]
        ELSE [text |-> <<"w">>, from |-> Pos(0, 0), to |-> Pos(0, 0),
              left |-> 0, top |-> 0] ]

\* Vaults that differ in where assets entries are; both views in scope
InitTrees ==
    /\ \E ro \in RootOptions, uo \in UniOptions, so \in SubOptions :
         /\ folders = BaseFolders \cup ro.folders \cup uo.folders \cup so.folders
         /\ files = NoteFiles \cup ro.files \cup uo.files \cup so.files
    /\ viewFile = [V1 |-> FileAt(P_Note1), V2 |-> FileAt(P_Note2)]

\* Vaults that differ in the images the target folder holds; one of them may
\* be a folder
InitImages ==
    /\ \E have \in (SUBSET (0..(MaxExisting - 1))) \ {{}}, asFolder \in BOOLEAN :
         /\ folders = BaseFolders \cup {P_UniAssets}
                        \cup (IF asFolder THEN ExistingImages(have \cap {0}) ELSE {})
         /\ files = NoteFiles
                        \cup (IF asFolder THEN ExistingImages(have \ {0})
                              ELSE ExistingImages(have))
         /\ (asFolder => 0 \in have)
    /\ viewFile = [V1 |-> FileAt(P_Note1), V2 |-> FileAt(P_Note2)]

\* A view out of scope, a view without a file, a file without a parent
InitViews ==
    /\ \E uo \in {o \in UniOptions : o.files = {}} :
         /\ folders = BaseFolders \cup uo.folders
         /\ files = NoteFiles
    /\ viewFile \in { [V1 |-> FileAt(P_Note1), V2 |-> FileAt(P_NoteOut)],
                      [V1 |-> Detached(P_Note1), V2 |-> NoFile] }

Init ==
    /\ (InitTrees \/ InitImages \/ InitViews)
    /\ editor = EditorInit
    /\ hs = [h \in Handlers |-> IdleHandler]

----------------------------------------------------------------------------
(* Host editor API (Editor), on an editor record                           *)

Min(a, b) == IF a < b THEN a ELSE b

\* Positions are clipped to the document, which has one line
ClipPos(pos, text) == IF pos.line > 0 THEN Pos(0, Len(text))
                      ELSE Pos(0, Min(pos.ch, Len(text)))

setSelection(ed, from, to) ==
    [ed EXCEPT !.from = ClipPos(from, ed.text), !.to = ClipPos(to, ed.text)]

\* replaceSelection: the text between from and to becomes the replacement,
\* the cursor follows it, and the host scrolls as it re-renders (top: bump)
replaceSelection(ed, replacement, bump) ==
    [ed EXCEPT !.text = SubSeq(ed.text, 1, ed.from.ch) \o replacement
                          \o SubSeq(ed.text, ed.to.ch + 1, Len(ed.text)),
               !.from = Pos(0, ed.from.ch + Len(replacement)),
               !.to   = Pos(0, ed.from.ch + Len(replacement)),
               !.top  = bump]

setCursor(ed, pos) ==
    [ed EXCEPT !.from = ClipPos(pos, ed.text), !.to = ClipPos(pos, ed.text)]

scrollTo(ed, left, top) == [ed EXCEPT !.left = left, !.top = top]

\* fileManager.generateMarkdownLink(created, sourcePath): an embed of the file
generateMarkdownLink(createdPath, sourcePath) ==
    <<"!", "[", "[">> \o createdPath \o <<"]", "]">>

----------------------------------------------------------------------------
(* The editor-paste handler, cut at the awaits of host I/O.  Code between  *)
(* two such awaits runs without interruption: an await of a promise that   *)
(* is already settled, or settled by the same task (findNearestAssetsFolder,*)
(* getUniquePath, the dialog's resolve), continues in a microtask.          *)

\* The handler has returned: its locals are gone, the history of its calls stays
Ended(r) ==
    [IdleHandler EXCEPT !.pc = "done", !.view = r.view, !.evtFiles = r.evtFiles,
                        !.prevented = r.prevented, !.image = r.image,
                        !.how = r.how, !.notices = r.notices, !.dialogs = r.dialogs,
                        !.created = r.created, !.written = r.written,
                        !.insertedIn = r.insertedIn, !.err = r.err,
                        !.usedAtWrite = r.usedAtWrite]

\* A faulty catch block: the error is logged and no notice is shown
Catch_Silent(r, kind) == Ended([r EXCEPT !.err = kind])

\* The catch block: console.error, a notice, and the handler ends
Catch(r, kind) == Ended([r EXCEPT !.notices = @ + 1, !.err = kind])

\* An early "return" without a notice
Return(r) == Ended(r)

\* From "const defaultBase" to the modal's open(): lines 70-80
OpenDialog(r, assetsFolder, now) ==
    [r EXCEPT !.assetsFolder = assetsFolder,
              !.defaultBase = defaultPasteBasename(now),
              !.prefix = makeNamePrefix(BasenameOf(r.activeFile)),
              !.ext = IF getExtFromMime(r.image) # Null THEN getExtFromMime(r.image)
                      ELSE E_png,
              !.dialogs = @ + 1,
              !.pc = "dialog"]

\* ensureAssetsUnder up to its await of createFolder, and the handler's
\* "if (!assetsFolder)" after it: lines 171-185 and 63-68
EnsureAssetsUnder(r, now, dirs, fls) ==
    LET path == AssetsPathUnder(r.startFolder) IN
    IF path \in dirs THEN OpenDialog(r, path, now)
    ELSE IF path \in fls
    THEN Ended([r EXCEPT !.notices = @ + 2, !.err = "NameConflict"])
    ELSE [r EXCEPT !.pc = "createFolder", !.pending = path]

\* Lines 29-61: the guards, the selection capture and the folder walk.
\* found is the value findNearestAssetsFolder returns.
PasteStep(r, view, file, fileList, ed, found, now, dirs, fls) ==
    LET seen == [r EXCEPT !.view = view, !.evtFiles = fileList] IN
    IF file = NoFile THEN Return(seen)
    ELSE IF ~isInScope(file.path) THEN Return(seen)
    ELSE IF Len(fileList) = 0 THEN Return(seen)
    ELSE IF FindImage(fileList) = 0 THEN Return(seen)
    ELSE LET taken == [seen EXCEPT !.image = fileList[FindImage(fileList)],
                                   !.prevented = TRUE,
                                   !.selectFrom = ed.from,
                                   !.selectTo = ed.to,
                                   !.activeFile = file.path,
                                   !.startFolder = file.parent]
         IN IF file.parent = Null
            THEN Ended([taken EXCEPT !.notices = @ + 1, !.err = "NoParentDirectory"])
            ELSE IF found # Null THEN OpenDialog(taken, found, now)
            ELSE EnsureAssetsUnder(taken, now, dirs, fls)

\* A modal is open: the editors receive no input
DialogOpen == \E h \in Handlers : hs[h].pc = "dialog"

\* The host delivers an editor-paste event of a view's editor to the callback
Paste(h) ==
    /\ hs[h].pc = "idle"
    /\ \A g \in Handlers : g < h => hs[g].pc # "idle"
    /\ ~DialogOpen
    /\ \E view \in Views, fileList \in Clipboards, now \in Clock :
         \E found \in (IF viewFile[view].parent = Null THEN {Null}
                       ELSE findNearestAssetsFolder(viewFile[view].parent, folders)) :
            hs' = [hs EXCEPT ![h] = PasteStep(hs[h], view, viewFile[view], fileList,
                                              editor[view], found, now, folders, files)]
    /\ UNCHANGED <<folders, files, viewFile, editor>>

\* vault.createFolder settles: it throws when an entry is at the path or the
\* host fails, else the folder is in the vault.  Lines 185-187, then 63-80.
CreateFolderDone(h) ==
    /\ hs[h].pc = "createFolder"
    /\ \E ok \in BOOLEAN, now \in Clock :
         IF ok /\ hs[h].pending \notin Entries
         THEN /\ folders' = folders \cup {hs[h].pending}
              /\ hs' = [hs EXCEPT ![h] =
                          OpenDialog([hs[h] EXCEPT !.created = @ \cup {hs[h].pending}],
                                     hs[h].pending, now)]
         ELSE /\ folders' = folders
              /\ hs' = [hs EXCEPT ![h] = Catch(hs[h], "FolderCreateFailed")]
    /\ UNCHANGED <<files, viewFile, editor>>

\* Lines 81-93: the dialog's promise has settled with name
AfterDialog(r, name, how, entries) ==
    IF name = Null THEN Return([r EXCEPT !.how = how])
    ELSE LET safeBase == IF sanitizeBase(name) # <<>> THEN sanitizeBase(name)
                         ELSE r.defaultBase
         IN [r EXCEPT !.name = name, !.how = how, !.safeBase = safeBase,
                      !.targetPath = getUniquePath(r.assetsFolder, safeBase, r.ext, entries),
                      !.pc = "arrayBuffer"]

\* The user presses Save or Enter with inputValue in the input
DialogSave(h) ==
    /\ hs[h].pc = "dialog"
    /\ \E inputValue \in InputValues :
         hs' = [hs EXCEPT ![h] =
                  AfterDialog(hs[h],
                              Settled(finish(inputValue, hs[h].prefix, hs[h].defaultBase)),
                              "finish", Entries)]
    /\ UNCHANGED <<folders, files, viewFile, editor>>

\* The user presses Cancel or Escape
DialogCancel(h) ==
    /\ hs[h].pc = "dialog"
    /\ \E inputValue \in InputValues :
         hs' = [hs EXCEPT ![h] =
                  AfterDialog(hs[h],
                              Settled(cancel(inputValue, hs[h].prefix, hs[h].defaultBase)),
                              "cancel", Entries)]
    /\ UNCHANGED <<folders, files, viewFile, editor>>

\* The modal is closed in another way (click outside, host closes it)
DialogClose(h) ==
    /\ hs[h].pc = "dialog"
    /\ \E inputValue \in InputValues :
         hs' = [hs EXCEPT ![h] =
                  AfterDialog(hs[h],
                              Settled(closeOther(inputValue, hs[h].prefix, hs[h].defaultBase)),
                              "close", Entries)]
    /\ UNCHANGED <<folders, files, viewFile, editor>>

\* imageFile.arrayBuffer() settles; on success createBinary is called: lines 93-97
ArrayBufferDone(h) ==
    /\ hs[h].pc = "arrayBuffer"
    /\ \E ok \in BOOLEAN :
         hs' = [hs EXCEPT ![h] =
                  IF ok THEN [hs[h] EXCEPT !.pc = "createBinary",
                                           !.name = Null, !.defaultBase = Null,
                                           !.prefix = Null,
                                           !.usedAtWrite = exists(hs[h].targetPath, Entries)]
                  ELSE Catch(hs[h], "ReadFailed")]
    /\ UNCHANGED <<folders, files, viewFile, editor>>

\* Lines 99-124 on the editor targetView shows
InsertLink(ed, from, to, link, bump) ==
    LET scrollInfo == [left |-> ed.left, top |-> ed.top]
        replaced == replaceSelection(setSelection(ed, from, to), link, bump)
        atEnd == setCursor(replaced, computeEndPos(from, link))
    IN scrollTo(atEnd, scrollInfo.left, scrollInfo.top)

\* targetView?.editor ?? editor
TargetView(activeView, pasteView) == IF activeView # NoView THEN activeView ELSE pasteView

\* vault.createBinary settles: it throws when an entry is at the path or the
\* host fails, else the file is in the vault and lines 99-131 run.
\* activeView is what getActiveViewOfType(MarkdownView) returns now: the user
\* may have made any view, or no markdown view, the active one meanwhile.
CreateBinaryDone(h) ==
    /\ hs[h].pc = "createBinary"
    /\ \E ok \in BOOLEAN, bump \in ScrollTops, activeView \in Views \cup {NoView} :
         IF ok /\ hs[h].targetPath \notin Entries
         THEN LET r == hs[h]
                  link == generateMarkdownLink(r.targetPath, r.activeFile)
                  tv == TargetView(activeView, r.view)
              IN /\ files' = files \cup {r.targetPath}
                 /\ editor' = [editor EXCEPT ![tv] =
                                 InsertLink(editor[tv], r.selectFrom, r.selectTo, link, bump)]
                 /\ hs' = [hs EXCEPT ![h] =
                             [r EXCEPT !.pc = "timer",
                                       !.written = @ \cup {r.targetPath},
                                       !.link = link,
                                       !.targetView = tv,
                                       !.insertedIn = tv,
                                       !.endPos = computeEndPos(r.selectFrom, link),
                                       !.scrollLeft = editor[tv].left,
                                       !.scrollTop = editor[tv].top]]
         ELSE /\ files' = files
              /\ editor' = editor
              /\ hs' = [hs EXCEPT ![h] = Catch(hs[h], "WriteFailed")]
    /\ UNCHANGED <<folders, viewFile>>

\* The callback's body: lines 126-130
Reapply(ed, endPos, left, top) == scrollTo(setCursor(ed, endPos), left, top)

\* The setTimeout(..., 0) callback runs.  The host has re-rendered the editor
\* since the insertion and may have scrolled it (to hostTop) meanwhile.
TimerFire(h) ==
    /\ hs[h].pc = "timer"
    /\ \E hostTop \in ScrollTops :
         editor' = [editor EXCEPT ![hs[h].targetView] =
                      Reapply([editor[hs[h].targetView] EXCEPT !.top = hostTop],
                              hs[h].endPos, hs[h].scrollLeft, hs[h].scrollTop)]
    /\ hs' = [hs EXCEPT ![h] = Ended(hs[h])]
    /\ UNCHANGED <<folders, files, viewFile>>

Next ==
    \/ \E h \in Handlers : Paste(h)
    \/ \E h \in Handlers : CreateFolderDone(h)
    \/ \E h \in Handlers : DialogSave(h)
    \/ \E h \in Handlers : DialogCancel(h)
    \/ \E h \in Handlers : DialogClose(h)
    \/ \E h \in Handlers : ArrayBufferDone(h)
    \/ \E h \in Handlers : CreateBinaryDone(h)
    \/ \E h \in Handlers : TimerFire(h)

Spec == Init /\ [][Next]_vars

----------------------------------------------------------------------------
(* Vocabulary of the properties, stated without the plugin's functions      *)

InFlight(h) == hs[h].pc \notin {"idle", "done"}

\* The handler h takes its first step: the paste event is delivered to it
Delivered(h) == hs[h].pc = "idle" /\ hs'[h].pc # "idle"

\* "Uni Notes/"
ScopePrefix == <<"U","n","i"," ","N","o","t","e","s","/">>

\* a is p or a folder above p
IsAncestorOrSelf(a, p) == a = RootPath \/ a = p \/ StartsWith(p, a \o <<"/">>)

\* The child directories of f whose lowercased name is "assets"
AssetsChildren(f, dirs) ==
    LET pre == IF f = RootPath THEN <<>> ELSE f \o <<"/">> IN
    {c \in dirs : /\ StartsWith(c, pre)
                  /\ Len(c) = Len(pre) + 6
                  /\ ToLowerCase(SubSeq(c, Len(pre) + 1, Len(c))) = <<"a","s","s","e","t","s">>}

\* The folders from start up to the root that have such a child
WithAssets(start, dirs) ==
    {a \in dirs : IsAncestorOrSelf(a, start) /\ AssetsChildren(a, dirs) # {}}

PathLen(p) == IF p = RootPath THEN 0 ELSE Len(p)

\* The nearest of them: the longest path
Nearest(start, dirs) ==
    CHOOSE a \in WithAssets(start, dirs) :
        \A b \in WithAssets(start, dirs) : PathLen(b) <= PathLen(a)

\* start/assets
AssetsAt(start) == IF start = RootPath THEN <<"a","s","s","e","t","s">>
                   ELSE start \o <<"/","a","s","s","e","t","s">>

\* The folder the paste of handler h starts from, after its first step
StartOf(h) == viewFile[hs'[h].view].parent

\* h's first step was an in-scope image paste of a file that has a parent
Resolving(h) == Delivered(h) /\ hs'[h].prevented /\ StartOf(h) # Null

\* The step that delivers a paste whose walk finds an assets folder
C1_Step(h) ==
    (Resolving(h) /\ WithAssets(StartOf(h), folders) # {})
        => /\ hs'[h].pc = "dialog"
           /\ hs'[h].assetsFolder \in AssetsChildren(Nearest(StartOf(h), folders), folders)
           /\ hs'[h].created = {}
           /\ folders' = folders
           /\ files' = files

\* C1: when start or an ancestor of start has a child directory named assets
\* (case-insensitively), the walk returns an assets child of the nearest such
\* folder, the dialog opens on it, and no folder is created.
C1_NearestAssets == [][\A h \in Handlers : C1_Step(h)]_vars

\* C1 witness: the walk stopped at an ancestor of start although the root,
\* farther up, has an assets folder too.
C1_Witness ==
    \E h \in Handlers :
        /\ hs[h].pc = "dialog"
        /\ hs[h].created = {}
        /\ hs[h].assetsFolder = P_UniAssets
        /\ hs[h].startFolder = P_Sub
        /\ P_RootAssets \in folders

\* First resolution: with no assets directory on the way up and nothing at
\* start/assets, createFolder is called for start/assets and nothing else changes.
C2_Call(h) ==
    (Resolving(h) /\ WithAssets(StartOf(h), folders) = {}
                  /\ AssetsAt(StartOf(h)) \notin Entries)
        => /\ hs'[h].pc = "createFolder"
           /\ hs'[h].pending = AssetsAt(hs'[h].startFolder)
           /\ hs'[h].created = {}
           /\ folders' = folders
           /\ files' = files

\* The call settles: when createFolder does not throw, exactly that one
\* directory is new and it is the folder returned; when it throws, none is.
C2_Settle(h) ==
    (hs[h].pc = "createFolder" /\ hs'[h].pc # "createFolder")
        => \/ /\ hs'[h].pc = "dialog"
              /\ hs[h].pending \notin folders
              /\ folders' = folders \cup {hs[h].pending}
              /\ files' = files
              /\ hs'[h].assetsFolder = hs[h].pending
              /\ hs'[h].created = {hs[h].pending}
           \/ /\ hs'[h].pc = "done"
              /\ hs'[h].err = "FolderCreateFailed"
              /\ hs'[h].created = {}
              /\ folders' = folders
              /\ files' = files

\* Again: a later resolution from the same start returns the directory an
\* earlier one created and creates nothing.
C2_Again(h) ==
    (Resolving(h) /\ \E g \in Handlers : AssetsAt(StartOf(h)) \in hs[g].created)
        => /\ hs'[h].pc = "dialog"
           /\ hs'[h].assetsFolder = AssetsAt(StartOf(h))
           /\ hs'[h].created = {}
           /\ folders' = folders
           /\ files' = files

\* C2: with no assets directory at start or above it and no entry at
\* start/assets, the resolution calls createFolder for start/assets only; when
\* the call returns, exactly that directory has been created and is the one
\* returned (when the host throws instead, none is, and the paste ends as
\* FolderCreateFailed); a later resolution from the same start returns that
\* directory and creates nothing.
C2_CreateOnce ==
    [][\A h \in Handlers : C2_Call(h) /\ C2_Settle(h) /\ C2_Again(h)]_vars

\* C2 witness: the second paste resolved to the folder the first one created
C2_Witness ==
    /\ hs[1].created # {}
    /\ hs[2].pc = "dialog"
    /\ hs[2].assetsFolder \in hs[1].created
    /\ hs[2].created = {}
    /\ hs[1].view = hs[2].view

\* dir/base.ext, dir/base 1.ext, dir/base 2.ext, ...
Candidate(dir, base, ext, i) ==
    dir \o <<"/">> \o base
        \o (IF i = 0 THEN <<>> ELSE <<" ">> \o NumToString(i)) \o <<".">> \o ext

\* The step in which getUniquePath scans the vault
C3_Step(h) ==
    (hs[h].pc = "dialog" /\ hs'[h].pc = "arrayBuffer")
        => \E i \in 0..Cardinality(Entries) :
              /\ hs'[h].targetPath =
                     Candidate(hs[h].assetsFolder, hs'[h].safeBase, hs[h].ext, i)
              /\ hs'[h].targetPath \notin Entries
              /\ \A j \in 0..(i - 1) :
                     Candidate(hs[h].assetsFolder, hs'[h].safeBase, hs[h].ext, j) \in Entries

\* C3: the path getUniquePath returns is the first candidate of the sequence
\* at which the vault has no entry, file or folder, at the time of the scan.
C3_FirstFree == [][\A h \in Handlers : C3_Step(h)]_vars

\* C3 witness: "a.jpg" and "a 1.jpg" exist and "a 2.jpg" was chosen
C3_Witness ==
    \E h \in Handlers :
        /\ hs[h].pc = "arrayBuffer"
        /\ Candidate(P_UniAssets, <<"a">>, E_jpg, 0) \in Entries
        /\ Candidate(P_UniAssets, <<"a">>, E_jpg, 1) \in Entries
        /\ hs[h].targetPath = Candidate(P_UniAssets, <<"a">>, E_jpg, 2)

\* What holds of a handler whose dialog was cancelled or closed, and the step that ends it
C4_State(h) ==
    /\ hs[h].how \in {"cancel", "close"}
          => hs[h].pc = "done" /\ hs[h].written = {} /\ hs[h].insertedIn = NoView
    /\ (hs[h].pc \in {"arrayBuffer", "createBinary", "timer"}
          \/ hs[h].written # {} \/ hs[h].insertedIn # NoView)
          => hs[h].how = "finish"

C4_Step(h) ==
    (hs[h].pc = "dialog" /\ hs'[h].how \in {"cancel", "close"})
        => files' = files /\ editor' = editor

\* C4: a dialog that ends without Save or Enter ends the handler with no
\* file written and no link inserted, and leaves the vault's files and the
\* editors as they are; only Save or Enter lets the handler go on.
C4_CancelWritesNothing ==
    [](\A h \in Handlers : C4_State(h)) /\ [][\A h \in Handlers : C4_Step(h)]_vars

\* C4 witness: a dialog was opened and closed without Save or Cancel
C4_Witness ==
    \E h \in Handlers : hs[h].how = "close" /\ hs[h].dialogs = 1 /\ hs[h].pc = "done"

\* C5 (the claim as stated): a cancelled paste has changed nothing in the
\* vault, not even an assets folder, and has shown no notice.
C5_CancelLeavesVault ==
    \A h \in Handlers :
        hs[h].how \in {"cancel", "close"}
            => hs[h].created = {} /\ hs[h].written = {} /\ hs[h].notices = 0

\* The text with the range from..to replaced by link
Replaced(text, from, to, link) ==
    SubSeq(text, 1, from.ch) \o link \o SubSeq(text, to.ch + 1, Len(text))

\* The insertion step and the deferred re-apply, seen from the editor of the paste
C6_Insert(h) ==
    (hs[h].pc = "createBinary" /\ hs'[h].pc = "timer")
        => /\ editor'[hs[h].view].text =
                 Replaced(editor[hs[h].view].text, hs[h].selectFrom, hs[h].selectTo,
                          hs'[h].link)
           /\ editor'[hs[h].view].left = editor[hs[h].view].left
           /\ editor'[hs[h].view].top = editor[hs[h].view].top
           /\ \A w \in Views \ {hs[h].view} : editor'[w] = editor[w]

C6_Deferred(h) ==
    (hs[h].pc = "timer" /\ hs'[h].pc = "done")
        => /\ editor'[hs[h].view].text = editor[hs[h].view].text
           /\ editor'[hs[h].view].left = hs[h].scrollLeft
           /\ editor'[hs[h].view].top = hs[h].scrollTop
           /\ \A w \in Views \ {hs[h].view} : editor'[w] = editor[w]

\* C6 (the claim as stated): the link replaces the captured range in the
\* editor that received the paste, no other text changes, and the scroll
\* position is the same after the insertion and after the deferred re-apply.
C6_ReplacesCapturedRange ==
    [][\A h \in Handlers : C6_Insert(h) /\ C6_Deferred(h)]_vars

\* What holds of a handler that met an error, and the step that raises it
C7_State(h) ==
    hs[h].err # "none"
        => /\ hs[h].pc = "done"
           /\ hs[h].notices >= 1
           /\ hs[h].insertedIn = NoView
           /\ hs[h].err \in {"NoParentDirectory", "NameConflict", "FolderCreateFailed"}
                 => hs[h].dialogs = 0 /\ hs[h].written = {}

C7_Step(h) ==
    (hs[h].err = "none" /\ hs'[h].err # "none")
        => editor' = editor /\ files' = files /\ folders' = folders

\* C7: every error ends the handler (the exception is caught) with a notice
\* shown and no link inserted, and the step that raises it changes neither
\* the editors nor the vault; without a parent, on a name conflict and when
\* the folder cannot be created, no dialog was opened and no file written.
C7_ErrorsEndWithNotice ==
    [](\A h \in Handlers : C7_State(h)) /\ [][\A h \in Handlers : C7_Step(h)]_vars

\* C7 witness: one paste ended on a name conflict, another on a failed write
C7_Witness ==
    \E h, g \in Handlers : hs[h].err = "NameConflict" /\ hs[g].err = "WriteFailed"

\* The clipboard has a file whose type starts with "image/"
CarriesImage(fileList) ==
    \E i \in 1..Len(fileList) : StartsWith(fileList[i], <<"i","m","a","g","e","/">>)

\* The type of its first such file
FirstImage(fileList) ==
    fileList[CHOOSE i \in 1..Len(fileList) :
                /\ StartsWith(fileList[i], <<"i","m","a","g","e","/">>)
                /\ \A j \in 1..(i - 1) : ~StartsWith(fileList[j], <<"i","m","a","g","e","/">>)]

\* The view's document is in scope
DocInScope(v) == viewFile[v] # NoFile /\ StartsWith(viewFile[v].path, ScopePrefix)

\* What holds of a delivered paste, and the step that ignores one
C8_State(h) ==
    hs[h].pc # "idle"
        => IF DocInScope(hs[h].view) /\ CarriesImage(hs[h].evtFiles)
           THEN hs[h].prevented /\ hs[h].image = FirstImage(hs[h].evtFiles)
           ELSE /\ ~hs[h].prevented
                /\ hs[h].pc = "done"
                /\ hs[h].dialogs = 0 /\ hs[h].notices = 0
                /\ hs[h].created = {} /\ hs[h].written = {} /\ hs[h].insertedIn = NoView

C8_Step(h) ==
    (Delivered(h) /\ ~hs'[h].prevented)
        => editor' = editor /\ files' = files /\ folders' = folders

\* C8: a paste out of scope or without an image is ignored: the default paste
\* is not suppressed, no dialog opens, and the step changes neither vault nor
\* editors; an in-scope paste with an image is suppressed and handles the
\* clipboard's first image.
C8_ScopeAndImageGuards ==
    [](\A h \in Handlers : C8_State(h)) /\ [][\A h \in Handlers : C8_Step(h)]_vars

\* C8 witness: an image pasted into a document out of scope was ignored
C8_Witness ==
    \E h \in Handlers :
        /\ hs[h].pc = "done"
        /\ ~hs[h].prevented
        /\ CarriesImage(hs[h].evtFiles)
        /\ viewFile[hs[h].view] # NoFile

\* The characters replaced by a space, and white space
Separators == {"\\", "/", ":", "*", "?", "\"", "<", ">", "|", " ", "\t"}

RECURSIVE SkipSeparators(_)
SkipSeparators(s) ==
    IF s # <<>> /\ Head(s) \in Separators THEN SkipSeparators(Tail(s)) ELSE s

RECURSIVE FirstWord(_)
FirstWord(s) ==
    IF s = <<>> \/ Head(s) \in Separators THEN <<>> ELSE <<Head(s)>> \o FirstWord(Tail(s))

\* The words of s, the runs of characters between separators, joined by one space
RECURSIVE Cleaned(_)
Cleaned(s) ==
    LET t == SkipSeparators(s) IN
    IF t = <<>> THEN <<>>
    ELSE LET w == FirstWord(t)
             rest == Cleaned(SubSeq(t, Len(w) + 1, Len(t)))
         IN IF rest = <<>> THEN w ELSE w \o <<" ">> \o rest

AllDots(s) == \A i \in 1..Len(s) : s[i] = "."

\* "Pasted image " and the clock reading as YYYYMMDDHHMMSS
StampedDefault ==
    <<"P","a","s","t","e","d"," ","i","m","a","g","e"," ",
      "2","0","2","5","0","1","0","5","0","9","3","0","0","7">>

\* The base name, the target path and the written file of a handler past its dialog
C9_State(h) ==
    /\ hs[h].pc = "arrayBuffer"
          => /\ hs[h].defaultBase = StampedDefault
             /\ hs[h].safeBase = (IF AllDots(Cleaned(hs[h].name)) THEN StampedDefault
                                  ELSE Cleaned(hs[h].name))
    /\ hs[h].pc \in {"arrayBuffer", "createBinary", "timer"}
          => /\ hs[h].safeBase # <<>>
             /\ ~AllDots(hs[h].safeBase)
             /\ \A i \in 1..Len(hs[h].safeBase) : hs[h].safeBase[i] \notin {"/", "\\"}
             /\ \E i \in 0..Cardinality(Entries) :
                   hs[h].targetPath =
                       Candidate(hs[h].assetsFolder, hs[h].safeBase, hs[h].ext, i)
    /\ hs[h].pc = "timer"
          => /\ hs[h].targetPath \in files
             /\ hs[h].written = {hs[h].targetPath}

\* C9: the base name is the dialog's name with the illegal characters made
\* spaces, white space collapsed and the ends trimmed, or the timestamped
\* default when that is empty or only dots; it is never empty, never only dots
\* and has no path separator, and the written file is a direct child of the
\* resolved assets folder.
C9_SanitizedBase == \A h \in Handlers : C9_State(h)

\* C9 witness: a name with illegal characters and a run of white space was saved
C9_Witness ==
    \E h \in Handlers :
        /\ hs[h].pc = "arrayBuffer"
        /\ hs[h].name = <<":", "a", "\t", "/", "b", ":">>
        /\ hs[h].safeBase = <<"a", " ", "b">>

\* C10 (the claim as stated): one handler at a time; the path chosen is unused
\* when createBinary is called; no two pastes choose the same path.
C10_NoInterleaving ==
    /\ \A h, g \in Handlers : (InFlight(h) /\ InFlight(g)) => h = g
    /\ \A h \in Handlers : ~hs[h].usedAtWrite
    /\ \A h, g \in Handlers :
          (h # g /\ hs[h].targetPath # Null /\ hs[g].targetPath # Null)
              => hs[h].targetPath # hs[g].targetPath

====
